---- MODULE Spec2Model ----
(***************************************************************************)
(* Fiat redemption fee model (src/src/app.py).                             *)
(*                                                                         *)
(* The program is a Streamlit script: eight sliders hold its state, and    *)
(* every slider change reruns the whole script top to bottom, recomputing  *)
(* the single-scenario breakdown, the abuser sweep table, the profitable   *)
(* count, the break-even curve and the crossover deposit.                  *)
(*                                                                         *)
(* Numbers are exact fixed-point integers.  Slider values are kept in the  *)
(* slider's own resolution:                                                *)
(*   deposit_amount          dollars            (step 50)                  *)
(*   provider_fee_pct        tenths of a percent                           *)
(*   provider_fee_fixed      cents              (step 5)                   *)
(*   house_edge_pct          tenths of a percent                           *)
(*   redemption_fee_cap_pct  tenths of a percent                           *)
(*   cashback_pct            tenths of a percent (step 5)                  *)
(*   playthrough             tenths             (step 5)                   *)
(*   luck_factor             tenths                                        *)
(* Single-scenario money is in q = 1/400 dollar; fee_cap and               *)
(* processing_fee in 1/1000 q; net_redemption, which exceeds 32 bits in    *)
(* 1/1000 q, is the pair [q, m] standing for q + m/1000.  Sweep money is   *)
(* in u = 1/20000 dollar.  With the slider steps above every division      *)
(* below is exact (redemption in the sweep is a multiple of 1000 u), so the *)
(* values are those of the formulas over the reals.                        *)
(* round(x, n) is Python's: to nearest, ties to even.                      *)
(***************************************************************************)
EXTENDS Integers, Sequences, FiniteSets

VARIABLES params, scenario, rows, profitable, curve_rows, crossover

vars == <<params, scenario, rows, profitable, curve_rows, crossover>>

Max(a, b) == IF a >= b THEN a ELSE b

Min(a, b) == IF a <= b THEN a ELSE b

\* round(n / m) for m > 0, ties to even (\div is floor division, % is >= 0)
RoundHalfEven(n, m) ==
    LET q == n \div m
        r == n % m
    IN  IF 2 * r > m \/ (2 * r = m /\ q % 2 = 1) THEN q + 1 ELSE q

----------------------------------------------------------------------------
\* Slider defaults (the third argument of st.sidebar.slider)

DefaultParams ==
    [ deposit_amount         |-> 100,
      provider_fee_pct       |-> 29,
      provider_fee_fixed     |-> 30,
      house_edge_pct         |-> 20,
      redemption_fee_cap_pct |-> 50,
      cashback_pct           |-> 20,
      playthrough            |-> 10,
      luck_factor            |-> 10 ]

----------------------------------------------------------------------------
\* Single-scenario fee model, lines 31-57.  Money in q = 1/400 dollar.

FeeIncurredNoFixed(p) == (2 * p.deposit_amount * p.provider_fee_pct) \div 5

FeeIncurred(p) == (2 * p.deposit_amount * p.provider_fee_pct) \div 5
                    + 4 * p.provider_fee_fixed

TotalWagered(p) == 40 * p.deposit_amount * p.playthrough

TheoreticalEdge(p) == (p.deposit_amount * p.playthrough * p.house_edge_pct) \div 25

ActualLossesInverted(p) == Max(0, (TheoreticalEdge(p) * p.luck_factor) \div 10)

ActualLosses(p) == Max(0, (TheoreticalEdge(p) * (20 - p.luck_factor)) \div 10)

RedemptionAmountUnclamped(p) == 400 * p.deposit_amount - ActualLosses(p)

RedemptionAmount(p) == Max(0, 400 * p.deposit_amount - ActualLosses(p))

UncoveredCost(p) ==
    Max(0, FeeIncurred(p) - Max(TheoreticalEdge(p), ActualLosses(p)))

\* in 1/1000 q
FeeCap(p) == p.redemption_fee_cap_pct * RedemptionAmount(p)

ProcessingFeeMax(p) == Max(FeeCap(p), 1000 * UncoveredCost(p))

\* in 1/1000 q
ProcessingFee(p) == Min(FeeCap(p), 1000 * UncoveredCost(p))

\* redemption_amount - processing_fee as [q, m] = q + m/1000, 0 <= m < 1000
NetRedemption(p) ==
    LET fee == ProcessingFee(p)
    IN  [ q |-> RedemptionAmount(p) - ((fee + 999) \div 1000),
          m |-> (1000 - (fee % 1000)) % 1000 ]

Scenario(p) ==
    [ fee_incurred      |-> FeeIncurred(p),
      total_wagered     |-> TotalWagered(p),
      theoretical_edge  |-> TheoreticalEdge(p),
      actual_losses     |-> ActualLosses(p),
      redemption_amount |-> RedemptionAmount(p),
      uncovered_cost    |-> UncoveredCost(p),
      fee_cap           |-> FeeCap(p),
      processing_fee    |-> ProcessingFee(p),
      net_redemption    |-> NetRedemption(p) ]

----------------------------------------------------------------------------
\* Abuser sweep, lines 84-105.  Money in u = 1/20000 dollar.

DepositsExclusive == [i \in 1..((9000 - 50 + 49) \div 50) |-> 50 + 50 * (i - 1)]

\* np.arange(50, 9050, 50)
Deposits == [i \in 1..((9050 - 50 + 49) \div 50) |-> 50 + 50 * (i - 1)]

\* tw = d * 1.0: the sweep wagers the deposit once, whatever the slider says
SweepPlaythroughFromSlider(p) == p.playthrough

SweepPlaythrough(p) == 10

FeeChargedMax(cap, uc) == Max(cap, uc)

\* fee = min(cap, uc)
FeeCharged(cap, uc) == Min(cap, uc)

AbuserProfitZeroLoss(cashback, fee, losses) == cashback - fee

\* profit = cashback - fee - losses
AbuserProfit(cashback, fee, losses) == cashback - fee - losses

\* the loop body's local variables for deposit d
SweepCalc(p, d) ==
    LET fi == 20 * d * p.provider_fee_pct + 200 * p.provider_fee_fixed
        tw == (d * SweepPlaythrough(p)) \div 10
        te == 20 * tw * p.house_edge_pct
        losses == te
        redemption == 20000 * d - losses
        uc == Max(0, fi - losses)
        cap == p.redemption_fee_cap_pct * (redemption \div 1000)
        fee == FeeCharged(cap, uc)
        cashback == 20 * d * p.cashback_pct
        profit == AbuserProfit(cashback, fee, losses)
    IN  [ fi |-> fi, te |-> te, losses |-> losses, redemption |-> redemption,
          uc |-> uc, cap |-> cap, fee |-> fee, cashback |-> cashback,
          profit |-> profit ]

\* round(x, 2) of x in u, in cents
Round2(x) == RoundHalfEven(x, 200)

\* the dict appended to rows, money in cents
TableRow(p, d) ==
    LET c == SweepCalc(p, d)
    IN  [ Deposit      |-> d,
          ProviderCost |-> Round2(c.fi),
          EdgeLoss     |-> Round2(c.losses),
          Uncovered    |-> Round2(c.uc),
          FeeCharged   |-> Round2(c.fee),
          Cashback     |-> Round2(c.cashback),
          AbuserProfit |-> Round2(c.profit) ]

Rows(p) == [i \in DOMAIN Deposits |-> TableRow(p, Deposits[i])]

\* len(df[df["Abuser Profit"] > 0])
Profitable(rs) == Cardinality({i \in DOMAIN rs : rs[i].AbuserProfit > 0})

----------------------------------------------------------------------------
\* Break-even curve and crossover, lines 125-168

ProfitPctOneDecimal(p, d) == 100 * RoundHalfEven(5 * SweepCalc(p, d).profit, 100 * d)

\* round((profit / d) * 100, 3), in thousandths of a percent
ProfitPct(p, d) == RoundHalfEven(5 * SweepCalc(p, d).profit, d)

CurveRow(p, d) == [ Deposit |-> d, AbuserProfitPct |-> ProfitPct(p, d) ]

\* the loop skips d = 0 (line 127)
CurveRows(p) ==
    LET kept == SelectSeq(Deposits, LAMBDA d : d # 0)
    IN  [i \in DOMAIN kept |-> CurveRow(p, kept[i])]

\* first row with a positive percentage; 0 stands for None
Crossover(cr) ==
    LET hits == {i \in DOMAIN cr : cr[i].AbuserProfitPct > 0}
    IN  IF hits = {} THEN 0
        ELSE cr[CHOOSE i \in hits : \A j \in hits : i <= j].Deposit

----------------------------------------------------------------------------
\* The sliders, lines 15-28 and 37-40: [lo, hi, step]

Sliders ==
    [ deposit_amount         |-> [lo |-> 0,  hi |-> 9000, step |-> 50],
      provider_fee_pct       |-> [lo |-> 0,  hi |-> 100,  step |-> 1],
      provider_fee_fixed     |-> [lo |-> 0,  hi |-> 100,  step |-> 5],
      house_edge_pct         |-> [lo |-> 5,  hi |-> 50,   step |-> 1],
      redemption_fee_cap_pct |-> [lo |-> 0,  hi |-> 100,  step |-> 1],
      cashback_pct           |-> [lo |-> 0,  hi |-> 50,   step |-> 5],
      playthrough            |-> [lo |-> 10, hi |-> 200,  step |-> 5],
      luck_factor            |-> [lo |-> 0,  hi |-> 20,   step |-> 1] ]

\* every value slider f can take
SliderRange(f) ==
    LET s == Sliders[f]
    IN  {s.lo + k * s.step : k \in 0..((s.hi - s.lo) \div s.step)}

\* The slider positions the exploration moves each slider to: both ends, the
\* default, and for house edge and fee cap one more notch at which the fee
\* cap leaves a profit of a fraction of a cent on small deposits.
Explored ==
    [ deposit_amount         |-> {0, 100, 9000},
      provider_fee_pct       |-> {0, 29, 100},
      provider_fee_fixed     |-> {0, 30, 100},
      house_edge_pct         |-> {5, 19, 20, 50},
      redemption_fee_cap_pct |-> {0, 1, 50, 100},
      cashback_pct           |-> {0, 20, 50},
      playthrough            |-> {10, 200},
      luck_factor            |-> {0, 10, 20} ]

\* Bound of the exploration: at most MaxOffDefault sliders are away from
\* their defaults at once.
MaxOffDefault == 3

OffDefault(p) == Cardinality({f \in DOMAIN p : p[f] # DefaultParams[f]})

----------------------------------------------------------------------------
\* One run of the script on the slider values p: the value of every variable

TypeOK ==
    /\ \A f \in DOMAIN params : params[f] \in SliderRange(f)
    /\ \A f \in DOMAIN Explored : Explored[f] \subseteq SliderRange(f)
    /\ Len(rows) = Len(Deposits)

Init ==
    /\ params = DefaultParams
    /\ scenario = Scenario(params)
    /\ rows = Rows(params)
    /\ profitable = Profitable(rows)
    /\ curve_rows = CurveRows(params)
    /\ crossover = Crossover(curve_rows)

\* the user moves slider f to v and Streamlit reruns the script
Rerun(f, v) ==
    /\ v # params[f]
    /\ params' = [params EXCEPT ![f] = v]
    /\ OffDefault(params') <= MaxOffDefault
    /\ scenario' = Scenario(params')
    /\ rows' = Rows(params')
    /\ profitable' = Profitable(rows')
    /\ curve_rows' = CurveRows(params')
    /\ crossover' = Crossover(curve_rows')

SetDepositAmount == \E v \in Explored.deposit_amount : Rerun("deposit_amount", v)

SetProviderFeePct == \E v \in Explored.provider_fee_pct : Rerun("provider_fee_pct", v)

SetProviderFeeFixed == \E v \in Explored.provider_fee_fixed : Rerun("provider_fee_fixed", v)

SetHouseEdgePct == \E v \in Explored.house_edge_pct : Rerun("house_edge_pct", v)

SetRedemptionFeeCapPct ==
    \E v \in Explored.redemption_fee_cap_pct : Rerun("redemption_fee_cap_pct", v)

SetCashbackPct == \E v \in Explored.cashback_pct : Rerun("cashback_pct", v)

SetPlaythrough == \E v \in Explored.playthrough : Rerun("playthrough", v)

SetLuckFactor == \E v \in Explored.luck_factor : Rerun("luck_factor", v)

Next ==
    \/ SetDepositAmount
    \/ SetProviderFeePct
    \/ SetProviderFeeFixed
    \/ SetHouseEdgePct
    \/ SetRedemptionFeeCapPct
    \/ SetCashbackPct
    \/ SetPlaythrough
    \/ SetLuckFactor

Spec == Init /\ [][Next]_vars

----------------------------------------------------------------------------
\* Properties

\* net_redemption [q, m] compared with an amount x in q
NetLeq(n, x) == n.q < x \/ (n.q = x /\ n.m = 0)

NetGeqZero(n) == n.q >= 0

\* C1: for every in-range ParameterSet the single-scenario fee model yields
\* fee_incurred, actual_losses, redemption_amount, uncovered_cost and fee_cap
\* >= 0, 0 <= processing_fee <= uncovered_cost, processing_fee <= fee_cap and
\* net_redemption <= redemption_amount.
C1_FeeModelInvariants ==
    /\ scenario.fee_incurred >= 0
    /\ scenario.actual_losses >= 0
    /\ scenario.redemption_amount >= 0
    /\ scenario.uncovered_cost >= 0
    /\ scenario.fee_cap >= 0
    /\ scenario.processing_fee >= 0
    /\ scenario.processing_fee <= 1000 * scenario.uncovered_cost
    /\ scenario.processing_fee <= scenario.fee_cap
    /\ NetLeq(scenario.net_redemption, scenario.redemption_amount)

\* the losses exceed the deposit (the clamp on redemption_amount acts) while
\* a provider cost is left uncovered
C1_Witness ==
    /\ params.deposit_amount > 0
    /\ scenario.actual_losses > 400 * params.deposit_amount
    /\ scenario.redemption_amount = 0
    /\ params.redemption_fee_cap_pct > 0

\* C2: crossover detection returns none exactly when the table counts no
\* profitable row, so the two summary alerts never disagree.
C2_CrossoverNoneIffNoProfitable == (crossover = 0) <=> (profitable = 0)

\* the two roundings disagree on the first row (a profit of a fraction of a
\* cent: 0.00 in the table, a positive percentage on the curve)
C2_Witness ==
    /\ rows[1].AbuserProfit = 0
    /\ curve_rows[1].AbuserProfitPct > 0
    /\ crossover = 50
    /\ profitable > 0

\* deposit of the first table row counted as profitable, 0 if there is none
FirstProfitableRow(rs) ==
    LET hits == {i \in DOMAIN rs : rs[i].AbuserProfit > 0}
    IN  IF hits = {} THEN 0
        ELSE rs[CHOOSE i \in hits : \A j \in hits : i <= j].Deposit

\* C3: crossover_deposit is the deposit of the first row, in ascending
\* order, whose abuser profit is > 0, the same rows that profitable_count
\* counts, and none when no row qualifies.
C3_CrossoverIsFirstProfitableRow == crossover = FirstProfitableRow(rows)

\* C4: under ExpectedLoss every sweep row for deposit d has
\* loss_term = d * house_edge_pct/100, redemption = d - loss_term,
\* uncovered = max(0, fee_incurred - loss_term),
\* fee_charged = min(cap_pct/100 * redemption, uncovered),
\* cashback = d * cashback_pct/100 and
\* abuser_profit = cashback - fee_charged - loss_term (shown to the cent);
\* with the default provider fee, house edge, cap and cashback the row for
\* deposit 100 shows 2.00, 1.20, 1.20 and -1.20.
C4_ExpectedLossRows ==
    /\ \A i \in DOMAIN rows :
        LET d == rows[i].Deposit
            fee_incurred == 20 * d * params.provider_fee_pct
                              + 200 * params.provider_fee_fixed
            loss_term == 20 * d * params.house_edge_pct
            redemption == 20000 * d - loss_term
            uncovered == Max(0, fee_incurred - loss_term)
            fee_charged ==
                Min(params.redemption_fee_cap_pct * (redemption \div 1000), uncovered)
            cashback == 20 * d * params.cashback_pct
        IN  /\ d = Deposits[i]
            /\ rows[i].ProviderCost = RoundHalfEven(fee_incurred, 200)
            /\ rows[i].EdgeLoss = RoundHalfEven(loss_term, 200)
            /\ rows[i].Uncovered = RoundHalfEven(uncovered, 200)
            /\ rows[i].FeeCharged = RoundHalfEven(fee_charged, 200)
            /\ rows[i].Cashback = RoundHalfEven(cashback, 200)
            /\ rows[i].AbuserProfit =
                   RoundHalfEven(cashback - fee_charged - loss_term, 200)
    /\ (/\ params.provider_fee_pct = 29
        /\ params.provider_fee_fixed = 30
        /\ params.house_edge_pct = 20
        /\ params.redemption_fee_cap_pct = 50
        /\ params.cashback_pct = 20)
       => rows[2] = [ Deposit |-> 100, ProviderCost |-> 320, EdgeLoss |-> 200,
                      Uncovered |-> 120, FeeCharged |-> 120, Cashback |-> 200,
                      AbuserProfit |-> 0 - 120 ]

\* the worked example's row, computed while the sliders the sweep ignores
\* are away from their defaults
C4_Witness ==
    /\ params.playthrough = 200
    /\ params.deposit_amount = 9000
    /\ rows[2].Deposit = 100
    /\ rows[2].AbuserProfit = 0 - 120
    /\ SweepCalc(params, 100).redemption = 98 * 20000

\* C5: for deposit 100, provider fee 2.9% + 0.30, house edge 2.0%, cap 5.0%,
\* playthrough 1.0 and luck 1.0 the fee model yields fee_incurred 3.20,
\* theoretical_edge 2.00, actual_losses 2.00, redemption_amount 98.00,
\* uncovered_cost 1.20, fee_cap 4.90, processing_fee 1.20 and
\* net_redemption 96.80.
C5_WorkedExample ==
    (/\ params.deposit_amount = 100
     /\ params.provider_fee_pct = 29
     /\ params.provider_fee_fixed = 30
     /\ params.house_edge_pct = 20
     /\ params.redemption_fee_cap_pct = 50
     /\ params.playthrough = 10
     /\ params.luck_factor = 10)
    => /\ scenario.fee_incurred = 1280
       /\ scenario.theoretical_edge = 800
       /\ scenario.actual_losses = 800
       /\ scenario.redemption_amount = 39200
       /\ scenario.uncovered_cost = 480
       /\ scenario.fee_cap = 1960000
       /\ scenario.processing_fee = 480000
       /\ scenario.net_redemption = [q |-> 38720, m |-> 0]

\* the example's inputs, reached again after the cashback slider has moved
C5_Witness ==
    /\ [params EXCEPT !.cashback_pct = 20] = DefaultParams
    /\ params.cashback_pct = 50
    /\ scenario.net_redemption = [q |-> 38720, m |-> 0]

\* C6: actual_losses equals theoretical_edge when luck_factor = 1, twice
\* theoretical_edge when luck_factor = 0, and 0 when luck_factor = 2.
C6_LuckFactor ==
    /\ params.luck_factor = 10 => scenario.actual_losses = scenario.theoretical_edge
    /\ params.luck_factor = 0 => scenario.actual_losses = 2 * scenario.theoretical_edge
    /\ params.luck_factor = 20 => scenario.actual_losses = 0

C6_Witness ==
    /\ params.luck_factor = 0
    /\ scenario.theoretical_edge > 0
    /\ scenario.actual_losses = 2 * scenario.theoretical_edge

\* C7: the sweep fixes playthrough to 1x: a rerun that changes only
\* playthrough, luck_factor or deposit_amount leaves the sweep rows, the
\* curve, the profitable count and the crossover deposit as they were.
C7_SweepIgnoresScenarioSliders ==
    [][ (\A f \in DOMAIN params \ {"playthrough", "luck_factor", "deposit_amount"} :
            params'[f] = params[f])
        => /\ rows' = rows
           /\ curve_rows' = curve_rows
           /\ profitable' = profitable
           /\ crossover' = crossover ]_vars

\* all three ignored sliders have moved, the other five have not, and the
\* table still shows the default sweep
C7_Witness ==
    /\ params.playthrough = 200
    /\ params.luck_factor = 0
    /\ params.deposit_amount = 9000
    /\ [params EXCEPT !.playthrough = 10, !.luck_factor = 10,
                      !.deposit_amount = 100] = DefaultParams
    /\ rows[2].EdgeLoss = 200

\* C8: the sweep table and the break-even curve hold exactly 180 rows, one
\* per deposit from 50 to 9000 inclusive in steps of 50, strictly ascending;
\* no row has deposit 0.
C8_SweepShape ==
    /\ Len(rows) = 180
    /\ Len(curve_rows) = 180
    /\ \A i \in 1..180 :
        /\ rows[i].Deposit = 50 * i
        /\ curve_rows[i].Deposit = 50 * i
    /\ \A i \in 1..179 :
        /\ rows[i].Deposit < rows[i + 1].Deposit
        /\ curve_rows[i].Deposit < curve_rows[i + 1].Deposit
    /\ rows[1].Deposit = 50
    /\ rows[180].Deposit = 9000
    /\ \A i \in DOMAIN curve_rows : curve_rows[i].Deposit # 0

C8_Witness ==
    /\ params # DefaultParams
    /\ Len(rows) = 180
    /\ curve_rows[180].Deposit = 9000
    /\ curve_rows[180].AbuserProfitPct # 0

\* C9: no monetary quantity other than abuser_profit is negative:
\* 0 <= net_redemption <= redemption_amount <= deposit_amount, and in every
\* sweep row redemption, fee cap, uncovered, fee_charged and cashback are
\* >= 0 with fee_charged <= uncovered and fee_charged <= fee cap.
C9_NoNegativeMoney ==
    /\ NetGeqZero(scenario.net_redemption)
    /\ NetLeq(scenario.net_redemption, scenario.redemption_amount)
    /\ scenario.redemption_amount <= 400 * params.deposit_amount
    /\ \A i \in DOMAIN rows :
        LET c == SweepCalc(params, rows[i].Deposit)
        IN  /\ c.redemption >= 0
            /\ c.cap >= 0
            /\ c.uc >= 0
            /\ c.fee >= 0
            /\ c.cashback >= 0
            /\ c.fee <= c.uc
            /\ c.fee <= c.cap
            /\ rows[i].Uncovered >= 0
            /\ rows[i].FeeCharged >= 0
            /\ rows[i].Cashback >= 0
            /\ rows[i].FeeCharged <= rows[i].Uncovered

\* a fee is charged in the scenario, and in the sweep the cap binds on the
\* first row while the abuser's profit there is negative
C9_Witness ==
    /\ scenario.processing_fee > 0
    /\ SweepCalc(params, 50).cap < SweepCalc(params, 50).uc
    /\ SweepCalc(params, 50).cap > 0
    /\ rows[1].AbuserProfit < 0

\* the formula shown on the page (line 9), on the scenario's values, in
\* 1/1000 q.  A negative difference is not scaled to 1/1000 q (it would leave
\* 32 bits): the minimum is then negative whatever the cap, and the result 0.
DisplayedFee ==
    LET diff == scenario.fee_incurred
                  - Max(scenario.theoretical_edge, scenario.actual_losses)
    IN  IF diff < 0 THEN 0 ELSE Max(0, Min(scenario.fee_cap, 1000 * diff))

\* C10: the formula shown to the user,
\* max(0, min(cap% * redemption, fee_incurred - max(theo_edge, losses))),
\* gives the fee the code computes,
\* min(cap% * redemption, max(0, fee_incurred - max(theo_edge, losses))).
C10_DisplayedFormulaAgrees == DisplayedFee = scenario.processing_fee

\* the provider cost is below the losses (the inner difference is negative)
\* under a positive cap: the two orders of max and min are both exercised
C10_Witness ==
    /\ scenario.fee_incurred < Max(scenario.theoretical_edge, scenario.actual_losses)
    /\ scenario.fee_cap > 0
    /\ scenario.processing_fee = 0

====
